---- MODULE Spec2Model ----
(***************************************************************************)
(* Model of the RAG customer-support pipeline: the three RAG systems       *)
(* (SimpleRAGSystem in src/simple_rag_system.py, the dense RAGSystem in    *)
(* src/rag_system.py, the lexical RAGSystem in src/src/rag_system.py),     *)
(* their retrieval, confidence estimate, generation wrapper and the        *)
(* get_response orchestrator.                                              *)
(*                                                                         *)
(* Strings are sequences of one-character strings.  Scores and confidences *)
(* are exact rationals [n |-> numerator, d |-> denominator > 0] in lowest  *)
(* terms.  A Python exception is a stage result with raised = TRUE.        *)
(***************************************************************************)
EXTENDS Integers, Sequences, FiniteSets, TLC

VARIABLES
    impl,           \* which RAG system class the session runs
    kb,             \* KnowledgeBase.documents as loaded from the store
    sys,            \* "none" (not constructed), "ready", "failed" (constructor raised)
    documents,      \* self.documents of the system
    index,          \* dense: the FAISS index [built, vecs]; built = FALSE is None
    pc,             \* position of get_response
    query,          \* the query of the running get_response
    top_k,          \* top_k of the running retrieval
    relevant_docs,  \* what the retrieval stage handed to get_response
    confidence,     \* the value _calculate_confidence returned in this run, or NoValue
    result,         \* the dict get_response returned, or NoValue
    raised,         \* TRUE when get_response itself raised to its caller
    retrFailed,     \* an exception occurred inside the retrieval stage of this run
    genFailed,      \* an exception occurred inside the generation stage of this run
    apiCalls,       \* chat-completion calls made by the running get_response
    lastRetrFailed, \* history: the previous get_response had a retrieval failure
    lastAdded,      \* history: the document of an add_to_knowledge_base that returned
                    \* True with no call completed since, or NoValue
    prev,           \* history: what the same retrieval returned when it was called
                    \* before, or NoValue
    file,           \* the JSON store file KnowledgeBase reads
    loaded,         \* KnowledgeBase.documents after _load_data, or NoValue
    count,          \* what the last get_document_count returned, or NoValue
    front,          \* the chat front end: "app" (src/app.py), "srcapp" (src/src/metrics.py)
    messages,       \* st.session_state.messages
    interactions,   \* MetricsTracker.interactions
    metrics         \* what the last get_current_metrics returned, or NoValue

histVars == <<lastAdded, prev>>
loadVars == <<file, loaded, count>>
chatVars == <<front, messages, interactions, metrics>>

vars == <<impl, kb, sys, documents, index, pc, query, top_k, relevant_docs,
          confidence, result, raised, retrFailed, genFailed, apiCalls,
          lastRetrFailed, lastAdded, prev, file, loaded, count, front, messages,
          interactions, metrics>>

-----------------------------------------------------------------------------
(* Bounds of the model. *)

MaxDocs == 2
MaxQueryLen == 3
MaxTopK == 2
MaxCtx == 4

-----------------------------------------------------------------------------
(* Exact rational arithmetic for Python's float scores. *)

Abs(x) == IF x < 0 THEN -x ELSE x

RECURSIVE GCD(_, _)
GCD(a, b) == IF b = 0 THEN a ELSE GCD(b, a % b)

Rat(n, d) ==
    LET g == GCD(Abs(n), d)
    IN  [n |-> n \div g, d |-> d \div g]

RAdd(x, y) == Rat(x.n * y.d + y.n * x.d, x.d * y.d)
RMul(x, y) == Rat(x.n * y.n, x.d * y.d)
RDiv(x, y) == Rat(x.n * y.d, x.d * y.n)
RLe(x, y) == x.n * y.d <= y.n * x.d
RLt(x, y) == x.n * y.d < y.n * x.d
RMin(x, y) == IF RLt(y, x) THEN y ELSE x
RMax(x, y) == IF RLt(x, y) THEN y ELSE x

Zero == Rat(0, 1)
One == Rat(1, 1)

-----------------------------------------------------------------------------
(* Strings, str.lower(), re.findall(r'\w+', s) and the `in` substring test. *)

Missing == <<"#missing">>
NotAString == <<"#number">>

Chars == {"a", "B", " "}

(* the capitals that occur in the model's texts; every character of the     *)
(* model is a letter or the space                                           *)
Lower(c) ==
    CASE c = "A" -> "a" [] c = "B" -> "b" [] c = "C" -> "c" [] c = "G" -> "g"
      [] c = "I" -> "i" [] c = "P" -> "p" [] c = "R" -> "r" [] OTHER -> c

IsWordChar(c) == c # " "

LowerStr(s) == [i \in 1..Len(s) |-> Lower(s[i])]

FindAllWords(s) ==
    { SubSeq(s, i, j) : <<i, j>> \in
        { p \in (1..Len(s)) \X (1..Len(s)) :
            /\ p[1] <= p[2]
            /\ \A k \in p[1]..p[2] : IsWordChar(s[k])
            /\ (p[1] = 1 \/ ~IsWordChar(s[p[1] - 1]))
            /\ (p[2] = Len(s) \/ ~IsWordChar(s[p[2] + 1])) } }

Contains(hay, needle) ==
    \E i \in 1..(Len(hay) - Len(needle) + 1) :
        SubSeq(hay, i, i + Len(needle) - 1) = needle

StringsUpTo(n) == UNION { [1..k -> Chars] : k \in 0..n }

-----------------------------------------------------------------------------
(* Documents: dicts read from the JSON store.  A key may be absent          *)
(* (Missing) and a value need not be a string (NotAString).                 *)

Doc(t, c, g) == [title |-> t, content |-> c, category |-> g]

DocPool ==
    { Doc(<<"a", "b">>, <<"b", " ", "a">>, <<"a">>),
      Doc(<<"A">>, <<"a", "b">>, Missing),
      Doc(<<"b">>, <<"b", "b">>, <<"a">>),
      Doc(Missing, <<"a">>, <<"b">>),
      Doc(NotAString, <<"a">>, <<"a">>) }

Collections(n) == UNION { [1..k -> DocPool] : k \in 0..n }

Get(doc, key, default) == IF doc[key] = Missing THEN default ELSE doc[key]

IsStr(v) == v # NotAString

-----------------------------------------------------------------------------
(* Stage results: a returned value, or a raised exception. *)

NoValue == [none |-> TRUE]

Returned(v) == [raised |-> FALSE, value |-> v]
Raised == [raised |-> TRUE, value |-> NoValue]

Min2(a, b) == IF a < b THEN a ELSE b
Max2(a, b) == IF a > b THEN a ELSE b

(* the slice left out *)
TakeAll(s, k) == s

(* s[:k] for k >= 0 *)
Take(s, k) == SubSeq(s, 1, Min2(k, Len(s)))

-----------------------------------------------------------------------------
(* list.sort(key=lambda x: x['score'], reverse=True): stable, descending.  *)

InsertAt(s, i, x) == SubSeq(s, 1, i - 1) \o <<x>> \o SubSeq(s, i, Len(s))

(* an ascending sort followed by reverse(): equal scores come out reversed *)
InsertDescUnstable(s, x) ==
    LET notHigher == { i \in 1..Len(s) : RLe(s[i].score, x.score) }
        at == IF notHigher = {} THEN Len(s) + 1
              ELSE CHOOSE i \in notHigher : \A j \in notHigher : i <= j
    IN  InsertAt(s, at, x)

(* x goes after every element whose score is >= its own *)
InsertDesc(s, x) ==
    LET lower == { i \in 1..Len(s) : RLt(s[i].score, x.score) }
        at == IF lower = {} THEN Len(s) + 1
              ELSE CHOOSE i \in lower : \A j \in lower : i <= j
    IN  InsertAt(s, at, x)

RECURSIVE SortFrom(_, _, _)
SortFrom(s, i, acc) ==
    IF i > Len(s) THEN acc ELSE SortFrom(s, i + 1, InsertDesc(acc, s[i]))

(* reverse=True left out: lowest score first *)
SortByScoreAsc(s) ==
    LET d == SortFrom(s, 1, <<>>)
    IN  [i \in 1..Len(d) |-> d[Len(d) + 1 - i]]

SortByScoreDesc(s) == SortFrom(s, 1, <<>>)

-----------------------------------------------------------------------------
(* Lexical retrieval of SimpleRAGSystem. *)

TitleWeight == 3
ContentWeight == 1
CategoryWeight == 2
ContentPhraseBonus == 1
TitlePhraseBonus == 2

QueryWords(q) == FindAllWords(LowerStr(q))

WithScore(doc, sc) ==
    [title |-> doc.title, content |-> doc.content, category |-> doc.category,
     score |-> sc]

WithoutScore(d) == Doc(d.title, d.content, d.category)

(* .lower() on a value that is no string raises AttributeError *)
SimpleDocRaises(doc) ==
    \/ ~IsStr(Get(doc, "title", <<>>))
    \/ ~IsStr(Get(doc, "content", <<>>))
    \/ ~IsStr(Get(doc, "category", <<>>))

(* the phrase bonus left out *)
SimpleTotalScoreNoBonus(doc, query_words) ==
    LET title_lower == LowerStr(Get(doc, "title", <<>>))
        content_lower == LowerStr(Get(doc, "content", <<>>))
        category_lower == LowerStr(Get(doc, "category", <<>>))
    IN  Cardinality(query_words \cap FindAllWords(title_lower)) * TitleWeight
        + Cardinality(query_words \cap FindAllWords(content_lower)) * ContentWeight
        + Cardinality(query_words \cap FindAllWords(category_lower)) * CategoryWeight

SimpleTotalScore(doc, query_words) ==
    LET title_lower == LowerStr(Get(doc, "title", <<>>))
        content_lower == LowerStr(Get(doc, "content", <<>>))
        category_lower == LowerStr(Get(doc, "category", <<>>))
        title_score == Cardinality(query_words \cap FindAllWords(title_lower)) * TitleWeight
        content_score == Cardinality(query_words \cap FindAllWords(content_lower)) * ContentWeight
        category_score == Cardinality(query_words \cap FindAllWords(category_lower)) * CategoryWeight
        phrase_bonus ==
            Cardinality({ w \in query_words : Contains(content_lower, w) }) * ContentPhraseBonus
            + Cardinality({ w \in query_words : Contains(title_lower, w) }) * TitlePhraseBonus
    IN  title_score + content_score + category_score + phrase_bonus

(* src/src/rag_system.py: title and content only *)
SrcDocRaises(doc) ==
    \/ ~IsStr(Get(doc, "title", <<>>))
    \/ ~IsStr(Get(doc, "content", <<>>))

SrcTotalScore(doc, query_words) ==
    LET title_words == FindAllWords(LowerStr(Get(doc, "title", <<>>)))
        content_words == FindAllWords(LowerStr(Get(doc, "content", <<>>)))
        title_score == Cardinality(query_words \cap title_words) * TitleWeight
        content_score == Cardinality(query_words \cap content_words) * ContentWeight
    IN  title_score + content_score

(* total_score of one document, as the class im computes it *)
TotalScore(im, doc, query_words) ==
    IF im = "simple" THEN SimpleTotalScore(doc, query_words)
    ELSE SrcTotalScore(doc, query_words)

(* the filter as total_score >= 0: documents that match nothing are kept *)
ScoredDocsKeepZero(im, docs, query_words) ==
    [i \in 1..Len(docs) |->
        WithScore(docs[i], Rat(TotalScore(im, docs[i], query_words),
                               Max2(Cardinality(query_words), 1)))]

(* the loop body's filter and normalisation, for every document in order *)
ScoredDocs(im, docs, query_words) ==
    LET hit == { i \in 1..Len(docs) : TotalScore(im, docs[i], query_words) > 0 }
        RECURSIVE Build(_)
        Build(i) ==
            IF i > Len(docs) THEN <<>>
            ELSE (IF i \in hit
                  THEN << WithScore(docs[i],
                              Rat(TotalScore(im, docs[i], query_words),
                                  Max2(Cardinality(query_words), 1))) >>
                  ELSE <<>>) \o Build(i + 1)
    IN  Build(1)

SimpleRetrieveBody(docs, q, k) ==
    IF \E i \in 1..Len(docs) : SimpleDocRaises(docs[i])
    THEN Raised
    ELSE Returned(Take(SortByScoreDesc(ScoredDocs("simple", docs, QueryWords(q))), k))

(* the same without the handler: the exception reaches get_response *)
SimpleRetrieveUncaught(docs, q, k) == SimpleRetrieveBody(docs, q, k)

(* try: ... except Exception: return [] *)
SimpleRetrieve(docs, q, k) ==
    LET body == SimpleRetrieveBody(docs, q, k)
    IN  IF body.raised THEN Returned(<<>>) ELSE body

-----------------------------------------------------------------------------
(* Lexical retrieval of the RAGSystem of src/src/rag_system.py: title and   *)
(* content word overlap only.                                               *)

SrcRetrieveBody(docs, q, k) ==
    IF \E i \in 1..Len(docs) : SrcDocRaises(docs[i])
    THEN Raised
    ELSE Returned(Take(SortByScoreDesc(ScoredDocs("srclex", docs, QueryWords(q))), k))

SrcRetrieve(docs, q, k) ==
    LET body == SrcRetrieveBody(docs, q, k)
    IN  IF body.raised THEN Returned(<<>>) ELSE body

-----------------------------------------------------------------------------
(* Dense retrieval of the RAGSystem of src/rag_system.py.  The embedding    *)
(* model and the FAISS inner-product search are external: a vector of the   *)
(* index stands for the content it embeds, the similarity of the query to   *)
(* each vector (sims) and whether encode() raises are the environment's.    *)

DenseScores == { Rat(-1, 2), Rat(1, 2), Rat(1, 1) }

NoIndex == [built |-> FALSE, vecs |-> <<>>]

Embed(content) == content

(* the texts the index holds a vector of *)
VecSet(idx) == { idx.vecs[i] : i \in 1..Len(idx.vecs) }

(* the inner products of the query embedding with the vectors of the index: *)
(* encode() is a function of the text, so equal texts score alike, and a     *)
(* unit vector scores 1.0 with itself                                       *)
Similarities(idx, q, sim) ==
    [i \in 1..Len(idx.vecs) |->
        IF idx.vecs[i] = Embed(q) THEN One ELSE sim[idx.vecs[i]]]

(* index.search: the k best positions, best first; fewer when the index is  *)
(* smaller (FAISS pads with -1, which the loop skips)                        *)
IndexSearch(idx, sims, k) ==
    Take(SortByScoreDesc([i \in 1..Len(idx.vecs) |-> [pos |-> i, score |-> sims[i]]]), k)

DenseRetrieveBody(docs, idx, sims, encodeRaises, k) ==
    IF encodeRaises \/ ~idx.built
    THEN Raised
    ELSE LET found == IndexSearch(idx, sims, k)
         IN  IF \E i \in 1..Len(found) : found[i].pos > Len(docs)
             THEN Raised
             ELSE Returned([i \in 1..Len(found) |->
                              WithScore(docs[found[i].pos], found[i].score)])

(* the same without the handler *)
DenseRetrieveUncaught(docs, idx, sims, encodeRaises, k) ==
    DenseRetrieveBody(docs, idx, sims, encodeRaises, k)

DenseRetrieve(docs, idx, sims, encodeRaises, k) ==
    LET body == DenseRetrieveBody(docs, idx, sims, encodeRaises, k)
    IN  IF body.raised THEN Returned(<<>>) ELSE body

-----------------------------------------------------------------------------
(* _calculate_confidence *)

Weights == << Rat(10, 10), Rat(7, 10), Rat(5, 10) >>
ExtraWeight == Rat(3, 10)
ConfidenceDocs == 3

(* no final clamp *)
Unclamped(c) == c

Clamp01(c) == RMin(One, RMax(Zero, c))

(* a score above 1.0 counted as 0 where the class caps *)
CapScoreDropsHigh(cap, sc) == IF cap /\ RLt(One, sc) THEN Zero ELSE sc

(* min(doc['score'], 1.0) where the class caps, doc['score'] where not *)
CapScore(cap, sc) == IF cap THEN RMin(sc, One) ELSE sc

WeightedConfidence(context_docs, cap) ==
    IF context_docs = <<>> THEN Zero
    ELSE
        LET top == Take(context_docs, ConfidenceDocs)
            weight(i) == IF i <= Len(Weights) THEN Weights[i] ELSE ExtraWeight
            RECURSIVE weighted_score(_), total_weight(_)
            weighted_score(i) ==
                IF i = 0 THEN Zero
                ELSE RAdd(weighted_score(i - 1), RMul(CapScore(cap, top[i].score), weight(i)))
            total_weight(i) ==
                IF i = 0 THEN Zero ELSE RAdd(total_weight(i - 1), weight(i))
            conf == IF RLt(Zero, total_weight(Len(top)))
                    THEN RDiv(weighted_score(Len(top)), total_weight(Len(top)))
                    ELSE Zero
        IN  Clamp01(conf)

(* the per-score cap left out *)
SimpleConfidenceUncapped(context_docs) == WeightedConfidence(context_docs, FALSE)

SimpleCalculateConfidence(context_docs) == WeightedConfidence(context_docs, TRUE)
SrcCalculateConfidence(context_docs) == WeightedConfidence(context_docs, TRUE)
DenseCalculateConfidence(context_docs) == WeightedConfidence(context_docs, FALSE)

Impls == {"simple", "dense", "srclex"}
Lexical == {"simple", "srclex"}

CalculateConfidence(im, context_docs) ==
    CASE im = "simple" -> SimpleCalculateConfidence(context_docs)
      [] im = "dense" -> DenseCalculateConfidence(context_docs)
      [] im = "srclex" -> SrcCalculateConfidence(context_docs)

-----------------------------------------------------------------------------
(* _generate_response: prompt composition, the chat-completion call, the    *)
(* confidence estimate and the sources list, inside one try/except.         *)

GenText == "<completion text>"

General == <<"G", "e", "n", "e", "r", "a", "l">>

GenOutcomes == {"ok", "api_error", "malformed"}

InnerFallbackText(im) ==
    IF im = "srclex"
    THEN "I apologize, but I'm experiencing technical difficulties. Please contact our support team for assistance."
    ELSE "I apologize, but I'm experiencing technical difficulties. Please try again later or contact our human support team."

OuterFallbackText(im) ==
    IF im = "srclex"
    THEN "I'm currently experiencing technical issues. Please try again later or contact human support."
    ELSE "I apologize, but I'm currently experiencing technical issues. Please try again later or contact our human support team for immediate assistance."

Fallback(text) == [answer |-> text, confidence |-> Zero, sources |-> <<>>]

(* doc['title'] / doc['content'] on a dict without the key: KeyError *)
ContextRaises(context_docs) ==
    \E i \in 1..Len(context_docs) :
        context_docs[i].title = Missing \/ context_docs[i].content = Missing

Sources(context_docs) ==
    [i \in 1..Len(context_docs) |->
        [title |-> context_docs[i].title,
         score |-> context_docs[i].score,
         category |-> Get(context_docs[i], "category", General)]]

GenerateBody(im, q, context_docs, outcome) ==
    IF ContextRaises(context_docs) \/ outcome # "ok"
    THEN Raised
    ELSE Returned([answer |-> GenText,
                   confidence |-> CalculateConfidence(im, context_docs),
                   sources |-> Sources(context_docs)])

(* a handler that forgets the sources key *)
GenerateResponseNoSources(im, q, context_docs, outcome) ==
    LET body == GenerateBody(im, q, context_docs, outcome)
    IN  IF body.raised
        THEN Returned([answer |-> InnerFallbackText(im), confidence |-> Zero])
        ELSE body

(* the same without the handler: the exception reaches get_response *)
GenerateResponseUncaught(im, q, context_docs, outcome) ==
    GenerateBody(im, q, context_docs, outcome)

GenerateResponse(im, q, context_docs, outcome) ==
    LET body == GenerateBody(im, q, context_docs, outcome)
    IN  IF body.raised THEN Returned(Fallback(InnerFallbackText(im))) ELSE body

-----------------------------------------------------------------------------
(* get_response: retrieve, then generate, inside one try/except. *)

TopK == 3

RetrieveBody(im, docs, idx, q, k, sims, encodeRaises) ==
    CASE im = "simple" -> SimpleRetrieveBody(docs, q, k)
      [] im = "srclex" -> SrcRetrieveBody(docs, q, k)
      [] im = "dense" -> DenseRetrieveBody(docs, idx, sims, encodeRaises, k)

RetrieveDocuments(im, docs, idx, q, k, sims, encodeRaises) ==
    CASE im = "simple" -> SimpleRetrieve(docs, q, k)
      [] im = "srclex" -> SrcRetrieve(docs, q, k)
      [] im = "dense" -> DenseRetrieve(docs, idx, sims, encodeRaises, k)

(* except Exception: return the second fallback *)
GetResponseCatch(im, stage) ==
    IF stage.raised THEN Returned(Fallback(OuterFallbackText(im))) ELSE stage

IsFallback(im, r) ==
    r \in { Fallback(InnerFallbackText(im)), Fallback(OuterFallbackText(im)) }

-----------------------------------------------------------------------------
(* KnowledgeBase: the JSON store file and _load_data.  A file is missing,   *)
(* unreadable, not JSON, a JSON array, or a JSON object whose `documents`   *)
(* key is absent or holds null, a number, a string, an object, a list of    *)
(* numbers or a list of documents.  items are the documents of a list of    *)
(* documents, size is len() of a value that has one.                        *)

FileOf(kind, items, size) == [kind |-> kind, items |-> items, size |-> size]

ListFile(docs) == FileOf("list", docs, Len(docs))

SizedKinds == {"string", "dict", "numbers"}

Files ==
    { FileOf(k, <<>>, 0) : k \in {"missing", "unreadable", "malformed", "array",
                                   "no_key", "null", "number"} }
    \cup { FileOf(k, <<>>, n) : k \in SizedKinds, n \in {0, 2} }
    \cup { ListFile(docs) : docs \in Collections(MaxDocs) }

(* self.documents as a value: a list of documents, or what else the file held *)
Value(shape, items, size) == [shape |-> shape, items |-> items, size |-> size]

EmptyList == Value("list", <<>>, 0)

ListValue(docs) == Value("list", docs, Len(docs))

(* open() and json.load(f) *)
JsonLoadRaises(f) == f.kind \in {"unreadable", "malformed"}

(* data.get('documents', []): a JSON array has no .get *)
DataGetRaises(f) == f.kind = "array"

DataGet(f) ==
    CASE f.kind = "no_key" -> EmptyList
      [] f.kind = "list" -> ListValue(f.items)
      [] OTHER -> Value(f.kind, <<>>, f.size)

(* len(self.documents) *)
LenRaises(v) == v.shape \in {"null", "number"}

(* src/knowledge_base.py: the count is printed after both branches *)
KbLoadBody(f) ==
    IF f.kind = "missing"
    THEN (IF LenRaises(EmptyList) THEN Raised ELSE Returned(EmptyList))
    ELSE IF JsonLoadRaises(f) \/ DataGetRaises(f) THEN Raised
    ELSE IF LenRaises(DataGet(f)) THEN Raised
    ELSE Returned(DataGet(f))

(* src/src/knowledge_base.py: the count is logged in the branch that read *)
SrcKbLoadBody(f) ==
    IF f.kind = "missing"
    THEN Returned(EmptyList)
    ELSE IF JsonLoadRaises(f) \/ DataGetRaises(f) THEN Raised
    ELSE IF LenRaises(DataGet(f)) THEN Raised
    ELSE Returned(DataGet(f))

(* try: ... except Exception: self.documents = [] *)
LoadData(im, f) ==
    LET body == IF im = "srclex" THEN SrcKbLoadBody(f) ELSE KbLoadBody(f)
    IN  IF body.raised THEN Returned(EmptyList) ELSE body

(* get_document_count: len(self.documents) *)
GetDocumentCountBody(v) == IF LenRaises(v) THEN Raised ELSE Returned(v.size)

(* the state of the store in a session that starts from a loaded collection *)
StoreLoaded ==
    /\ file = ListFile(kb)
    /\ loaded = ListValue(kb)
    /\ count = NoValue

NoHistory ==
    /\ lastAdded = NoValue
    /\ prev = NoValue

NoChat ==
    /\ front = "none"
    /\ messages = <<>>
    /\ interactions = <<>>
    /\ metrics = NoValue

-----------------------------------------------------------------------------
(* The session: construction, then one get_response at a time. *)

Queries == { <<>>, <<" ">>, <<"a">>, <<"b">>, <<"A", " ", "b">> }

Init ==
    /\ impl \in Impls
    /\ kb \in Collections(MaxDocs)
    /\ sys = "none"
    /\ documents = <<>>
    /\ index = NoIndex
    /\ pc = "Idle"
    /\ query = <<>>
    /\ top_k = TopK
    /\ relevant_docs = <<>>
    /\ confidence = NoValue
    /\ result = NoValue
    /\ raised = FALSE
    /\ retrFailed = FALSE
    /\ genFailed = FALSE
    /\ apiCalls = 0
    /\ lastRetrFailed = FALSE
    /\ NoHistory
    /\ StoreLoaded
    /\ NoChat

(* the emptiness check left out *)
DenseInitRaisesUnchecked(docs, encodeRaises) ==
    \/ \E i \in 1..Len(docs) : docs[i].content = Missing \/ ~IsStr(docs[i].content)
    \/ encodeRaises

(* if not self.documents: raise; texts = [doc['content'] ...]; encode(texts) *)
DenseInitRaises(docs, encodeRaises) ==
    \/ docs = <<>>
    \/ \E i \in 1..Len(docs) : docs[i].content = Missing \/ ~IsStr(docs[i].content)
    \/ encodeRaises

(* __init__ of the three classes *)
Construct ==
    /\ sys = "none"
    /\ documents' = kb
    /\ \E encodeRaises \in (IF impl = "dense" THEN BOOLEAN ELSE {FALSE}) :
        /\ sys' = CASE impl = "simple" -> (IF kb = <<>> THEN "failed" ELSE "ready")
                    [] impl = "dense" ->
                         (IF DenseInitRaises(kb, encodeRaises) THEN "failed" ELSE "ready")
                    [] impl = "srclex" -> "ready"
        /\ index' = IF impl = "dense" /\ ~DenseInitRaises(kb, encodeRaises)
                    THEN [built |-> TRUE,
                          vecs |-> [i \in 1..Len(kb) |-> Embed(kb[i].content)]]
                    ELSE NoIndex
    /\ UNCHANGED <<impl, kb, pc, query, top_k, relevant_docs, confidence, result,
                   raised, retrFailed, genFailed, apiCalls, lastRetrFailed,
                   histVars, loadVars, chatVars>>

(* the score written into the stored document itself *)
StoredScoredInPlace(docs, found) ==
    [i \in 1..Len(docs) |->
        IF \E j \in 1..Len(found) : WithoutScore(found[j]) = WithoutScore(docs[i])
        THEN found[CHOOSE j \in 1..Len(found) : WithoutScore(found[j]) = WithoutScore(docs[i])]
        ELSE docs[i]]

(* the ranking done on the stored list itself, which comes out with the     *)
(* ranked documents first, best last                                         *)
StoredReordered(docs, found) ==
    LET ranked == [i \in 1..Len(found) |-> WithoutScore(found[Len(found) + 1 - i])]
        Unranked(d) == \A i \in 1..Len(ranked) : ranked[i] # d
    IN  ranked \o SelectSeq(docs, Unranked)

(* the stored documents after a retrieval that scored them: doc.copy() and  *)
(* a new list take the scores and the ranking, the store keeps its          *)
(* documents and their order                                                *)
StoredAfterRetrieve(docs, found) == docs

(* the caller invokes get_response(q) *)
Ask ==
    /\ sys = "ready"
    /\ pc = "Idle"
    /\ \E q \in Queries : query' = q
    /\ pc' = "Retrieving"
    /\ UNCHANGED <<impl, kb, sys, documents, index, top_k, relevant_docs, confidence,
                   result, raised, retrFailed, genFailed, apiCalls, lastRetrFailed,
                   histVars, loadVars, chatVars>>

(* Step 1: relevant_docs = self._retrieve_relevant_documents(query, top_k=3) *)
Retrieve ==
    /\ pc = "Retrieving"
    /\ \E encodeRaises \in (IF impl = "dense" THEN BOOLEAN ELSE {FALSE}) :
       \E sim \in [VecSet(index) -> DenseScores] :
        LET sims == Similarities(index, query, sim)
            body == RetrieveBody(impl, documents, index, query, top_k, sims, encodeRaises)
            stage == RetrieveDocuments(impl, documents, index, query, top_k, sims, encodeRaises)
            out == GetResponseCatch(impl, stage)
        IN  /\ retrFailed' = body.raised
            /\ raised' = out.raised
            /\ IF stage.raised
               THEN /\ relevant_docs' = <<>>
                    /\ result' = out.value
                    /\ pc' = "Error"
               ELSE /\ relevant_docs' = stage.value
                    /\ result' = result
                    /\ pc' = "Generating"
            /\ documents' = StoredAfterRetrieve(documents, IF body.raised THEN <<>> ELSE body.value)
    /\ UNCHANGED <<impl, kb, sys, index, query, top_k, confidence,
                   genFailed, apiCalls, lastRetrFailed, histVars, loadVars, chatVars>>

(* Step 2: response_data = self._generate_response(query, relevant_docs) *)
Generate ==
    /\ pc = "Generating"
    /\ \E outcome \in GenOutcomes :
        LET body == GenerateBody(impl, query, relevant_docs, outcome)
            stage == GenerateResponse(impl, query, relevant_docs, outcome)
            out == GetResponseCatch(impl, stage)
        IN  /\ genFailed' = body.raised
            /\ apiCalls' = IF ContextRaises(relevant_docs) THEN apiCalls ELSE apiCalls + 1
            /\ confidence' = IF body.raised THEN NoValue ELSE body.value.confidence
            /\ result' = out.value
            /\ raised' = out.raised
            /\ pc' = IF body.raised THEN "Error" ELSE "Done"
    /\ UNCHANGED <<impl, kb, sys, documents, index, query, top_k, relevant_docs,
                   retrFailed, lastRetrFailed, histVars, loadVars, chatVars>>

(* the caller has the result; the next get_response starts afresh *)
Return ==
    /\ pc \in {"Done", "Error"}
    /\ pc' = "Idle"
    /\ query' = <<>>
    /\ relevant_docs' = <<>>
    /\ confidence' = NoValue
    /\ result' = NoValue
    /\ raised' = FALSE
    /\ retrFailed' = FALSE
    /\ genFailed' = FALSE
    /\ apiCalls' = 0
    /\ lastRetrFailed' = retrFailed
    /\ lastAdded' = NoValue
    /\ UNCHANGED <<impl, kb, sys, documents, index, top_k, prev, loadVars, chatVars>>

-----------------------------------------------------------------------------
(* add_to_knowledge_base of SimpleRAGSystem and of the dense RAGSystem (the *)
(* RAGSystem of src/src has none).  self.documents is the list object of    *)
(* the KnowledgeBase, so the append shows in both.                          *)

MaxAdds == 2

AddTitles == { <<"b">> }
AddContents == { <<"a">>, <<"b">> }

Added(ok, docs, idx) == [ok |-> ok, documents |-> docs, index |-> idx]

(* self.documents.append(new_doc); return True *)
SimpleAdd(docs, idx, new_doc) == Added(TRUE, Append(docs, new_doc), idx)

(* self.documents.append(new_doc); encode([content]); self.index.add(...);  *)
(* return True; except Exception: return False                              *)
DenseAdd(docs, idx, new_doc, encodeRaises) ==
    IF encodeRaises \/ ~idx.built
    THEN Added(FALSE, Append(docs, new_doc), idx)
    ELSE Added(TRUE, Append(docs, new_doc),
               [built |-> TRUE, vecs |-> Append(idx.vecs, Embed(new_doc.content))])

AddToKnowledgeBase ==
    /\ sys = "ready"
    /\ pc = "Idle"
    /\ impl \in {"simple", "dense"}
    /\ Len(documents) < Len(file.items) + MaxAdds
    /\ \E title \in AddTitles, content \in AddContents :
       \E encodeRaises \in (IF impl = "dense" THEN BOOLEAN ELSE {FALSE}) :
        LET new_doc == Doc(title, content, General)
            out == IF impl = "simple"
                   THEN SimpleAdd(documents, index, new_doc)
                   ELSE DenseAdd(documents, index, new_doc, encodeRaises)
        IN  /\ documents' = out.documents
            /\ kb' = out.documents
            /\ loaded' = ListValue(out.documents)
            /\ index' = out.index
            /\ lastAdded' = IF out.ok THEN new_doc ELSE NoValue
    /\ prev' = NoValue
    /\ UNCHANGED <<impl, sys, pc, query, top_k, relevant_docs, confidence, result,
                   raised, retrFailed, genFailed, apiCalls, lastRetrFailed,
                   file, count, chatVars>>

Next == Construct \/ Ask \/ Retrieve \/ Generate \/ Return

Spec == Init /\ [][Next]_vars

-----------------------------------------------------------------------------
(* A session with adds between the queries. *)

StorePool ==
    { Doc(<<"a", "b">>, <<"b">>, <<"a">>),
      Doc(<<"A">>, <<"a">>, Missing) }

StoreCollections == UNION { [1..k -> StorePool] : k \in 0..MaxDocs }

InitStore ==
    /\ impl \in Impls
    /\ kb \in StoreCollections
    /\ sys = "none"
    /\ documents = <<>>
    /\ index = NoIndex
    /\ pc = "Idle"
    /\ query = <<>>
    /\ top_k = TopK
    /\ relevant_docs = <<>>
    /\ confidence = NoValue
    /\ result = NoValue
    /\ raised = FALSE
    /\ retrFailed = FALSE
    /\ genFailed = FALSE
    /\ apiCalls = 0
    /\ lastRetrFailed = FALSE
    /\ NoHistory
    /\ StoreLoaded
    /\ NoChat

NextStore == Next \/ AddToKnowledgeBase

SpecStore == InitStore /\ [][NextStore]_vars

-----------------------------------------------------------------------------
(* The lexical retrievers alone, on every query up to MaxQueryLen, every    *)
(* collection up to MaxDocs documents and every top_k up to MaxTopK.        *)

ResetPassword ==
    Doc(<<"R", "e", "s", "e", "t", " ", "P", "a", "s", "s", "w", "o", "r", "d">>,
        <<"C", "l", "i", "c", "k", " ", "f", "o", "r", "g", "o", "t", " ", "p", "a", "s", "s", "w", "o", "r", "d", " ", "o", "n", " ", "l", "o", "g", "i", "n", " ", "p", "a", "g", "e">>,
        <<"A", "c", "c", "o", "u", "n", "t">>)

BillingCycle ==
    Doc(<<"B", "i", "l", "l", "i", "n", "g", " ", "C", "y", "c", "l", "e">>,
        <<"B", "i", "l", "l", "s", " ", "a", "r", "e", " ", "g", "e", "n", "e", "r", "a", "t", "e", "d", " ", "m", "o", "n", "t", "h", "l", "y">>,
        <<"B", "i", "l", "l", "i", "n", "g">>)

ScenarioCollection == << ResetPassword, BillingCycle >>

ScenarioQuery ==
    <<"h", "o", "w", " ", "d", "o", " ", "I", " ", "r", "e", "s", "e", "t", " ", "m", "y", " ", "p", "a", "s", "s", "w", "o", "r", "d">>

InitRetrieve ==
    /\ impl \in Lexical
    /\ \/ /\ kb \in Collections(MaxDocs)
          /\ query \in StringsUpTo(MaxQueryLen)
          /\ top_k \in 0..MaxTopK
       \/ /\ kb = ScenarioCollection
          /\ query = ScenarioQuery
          /\ top_k = TopK
    /\ impl = "simple" => kb # <<>>
    /\ documents = kb
    /\ sys = "ready"
    /\ index = NoIndex
    /\ pc = "Retrieving"
    /\ relevant_docs = <<>>
    /\ confidence = NoValue
    /\ result = NoValue
    /\ raised = FALSE
    /\ retrFailed = FALSE
    /\ genFailed = FALSE
    /\ apiCalls = 0
    /\ lastRetrFailed = FALSE
    /\ NoHistory
    /\ StoreLoaded
    /\ NoChat

(* the caller calls the retriever once more, same query and same top_k *)
RetrieveAgain ==
    /\ pc = "Generating"
    /\ prev = NoValue
    /\ prev' = [query |-> query, top_k |-> top_k, docs |-> relevant_docs,
                failed |-> retrFailed]
    /\ pc' = "Retrieving"
    /\ relevant_docs' = <<>>
    /\ retrFailed' = FALSE
    /\ UNCHANGED <<impl, kb, sys, documents, index, query, top_k, confidence, result,
                   raised, genFailed, apiCalls, lastRetrFailed, lastAdded, loadVars,
                   chatVars>>

NextRetrieve == Retrieve \/ RetrieveAgain

SpecRetrieve == InitRetrieve /\ [][NextRetrieve]_vars

-----------------------------------------------------------------------------
(* _generate_response and _calculate_confidence alone, on every list of up  *)
(* to MaxCtx scored documents, scores above 1 and below 0 included.         *)

CtxScores == { Rat(-1, 2), Zero, Rat(1, 2), One, Rat(3, 2) }

CtxDoc == Doc(<<"a", "b">>, <<"b", " ", "a">>, <<"a">>)

ScoredLists(n) ==
    UNION { [1..k -> { WithScore(CtxDoc, sc) : sc \in CtxScores }] : k \in 0..n }

InitConf ==
    /\ impl \in Impls
    /\ kb = <<CtxDoc>>
    /\ documents = kb
    /\ sys = "ready"
    /\ index = IF impl = "dense"
               THEN [built |-> TRUE, vecs |-> <<Embed(CtxDoc.content)>>]
               ELSE NoIndex
    /\ pc = "Generating"
    /\ query = <<"a">>
    /\ top_k = MaxCtx
    /\ relevant_docs \in ScoredLists(MaxCtx)
    /\ confidence = NoValue
    /\ result = NoValue
    /\ raised = FALSE
    /\ retrFailed = FALSE
    /\ genFailed = FALSE
    /\ apiCalls = 0
    /\ lastRetrFailed = FALSE
    /\ NoHistory
    /\ StoreLoaded
    /\ NoChat

NextConf == Generate

SpecConf == InitConf /\ [][NextConf]_vars

-----------------------------------------------------------------------------
(* _calculate_confidence called on one list and then on a second list of    *)
(* the same length, the first call's list and value kept for comparison.    *)

PairScores == { Rat(-1, 2), Rat(1, 2), Rat(3, 2) }

PairLists(n) ==
    UNION { [1..k -> { WithScore(CtxDoc, sc) : sc \in PairScores }] : k \in 0..n }

InitPair ==
    /\ impl \in Impls
    /\ kb = <<CtxDoc>>
    /\ documents = kb
    /\ sys = "ready"
    /\ index = IF impl = "dense"
               THEN [built |-> TRUE, vecs |-> <<Embed(CtxDoc.content)>>]
               ELSE NoIndex
    /\ pc = "Confidence"
    /\ query = <<"a">>
    /\ top_k = MaxCtx
    /\ relevant_docs \in PairLists(MaxCtx)
    /\ confidence = NoValue
    /\ result = NoValue
    /\ raised = FALSE
    /\ retrFailed = FALSE
    /\ genFailed = FALSE
    /\ apiCalls = 0
    /\ lastRetrFailed = FALSE
    /\ NoHistory
    /\ StoreLoaded
    /\ NoChat

(* confidence = self._calculate_confidence(context_docs) *)
CalculateConfidenceCall ==
    /\ pc = "Confidence"
    /\ confidence' = CalculateConfidence(impl, relevant_docs)
    /\ pc' = "ConfidenceDone"
    /\ UNCHANGED <<impl, kb, sys, documents, index, query, top_k, relevant_docs, result,
                   raised, retrFailed, genFailed, apiCalls, lastRetrFailed, histVars,
                   loadVars, chatVars>>

(* a second call, on another list of the same length *)
CalculateConfidenceAgain ==
    /\ pc = "ConfidenceDone"
    /\ prev = NoValue
    /\ prev' = [docs |-> relevant_docs, confidence |-> confidence]
    /\ \E other \in PairLists(MaxCtx) :
        /\ Len(other) = Len(relevant_docs)
        /\ relevant_docs' = other
    /\ confidence' = NoValue
    /\ pc' = "Confidence"
    /\ UNCHANGED <<impl, kb, sys, documents, index, query, top_k, result, raised,
                   retrFailed, genFailed, apiCalls, lastRetrFailed, lastAdded, loadVars,
                   chatVars>>

NextPair == CalculateConfidenceCall \/ CalculateConfidenceAgain

SpecPair == InitPair /\ [][NextPair]_vars

-----------------------------------------------------------------------------
(* KnowledgeBase construction on every kind of store file, then             *)
(* get_document_count.                                                      *)

InitLoad ==
    /\ impl \in Impls
    /\ file \in Files
    /\ loaded = NoValue
    /\ count = NoValue
    /\ kb = <<>>
    /\ sys = "none"
    /\ documents = <<>>
    /\ index = NoIndex
    /\ pc = "Idle"
    /\ query = <<>>
    /\ top_k = TopK
    /\ relevant_docs = <<>>
    /\ confidence = NoValue
    /\ result = NoValue
    /\ raised = FALSE
    /\ retrFailed = FALSE
    /\ genFailed = FALSE
    /\ apiCalls = 0
    /\ lastRetrFailed = FALSE
    /\ NoHistory
    /\ NoChat

(* KnowledgeBase.__init__: self.documents = []; self._load_data() *)
LoadStore ==
    /\ loaded = NoValue
    /\ LET out == LoadData(impl, file)
       IN  /\ loaded' = IF out.raised THEN Value("raised", <<>>, 0) ELSE out.value
           /\ kb' = IF out.raised THEN kb ELSE out.value.items
    /\ UNCHANGED <<impl, sys, documents, index, pc, query, top_k, relevant_docs,
                   confidence, result, raised, retrFailed, genFailed, apiCalls,
                   lastRetrFailed, histVars, file, count, chatVars>>

(* KnowledgeBase.get_document_count *)
GetDocumentCount ==
    /\ loaded # NoValue
    /\ loaded.shape # "raised"
    /\ count = NoValue
    /\ count' = GetDocumentCountBody(loaded)
    /\ UNCHANGED <<impl, kb, sys, documents, index, pc, query, top_k, relevant_docs,
                   confidence, result, raised, retrFailed, genFailed, apiCalls,
                   lastRetrFailed, histVars, file, loaded, chatVars>>

NextLoad == LoadStore \/ GetDocumentCount

SpecLoad == InitLoad /\ [][NextLoad]_vars

-----------------------------------------------------------------------------
(* MetricsTracker (src/metrics.py).  The timestamp of an interaction is not *)
(* modelled; the response time is the environment's.                        *)

MaxInteractions == 2

ResolvedThreshold == Rat(7, 10)

ResponseTimes == { Rat(1, 2), Rat(2, 1) }

(* confidence >= 0.7 *)
EstimateResolutionAtLeast(conf, sources_count) ==
    RLe(ResolvedThreshold, conf) /\ sources_count > 0

(* _estimate_resolution: confidence > 0.7 and sources_count > 0 *)
EstimateResolution(conf, sources_count) ==
    RLt(ResolvedThreshold, conf) /\ sources_count > 0

Interaction(q, response, response_time, conf, sources_count) ==
    [query |-> q, response |-> response, response_time |-> response_time,
     confidence |-> conf, sources_count |-> sources_count,
     resolved |-> EstimateResolution(conf, sources_count)]

(* add_interaction *)
AddInteractionTo(ints, q, response, response_time, conf, sources_count) ==
    Append(ints, Interaction(q, response, response_time, conf, sources_count))

RECURSIVE SumOf(_, _, _)
SumOf(ints, field, i) ==
    IF i = 0 THEN Zero ELSE RAdd(SumOf(ints, field, i - 1), ints[i][field])

(* statistics.mean *)
Mean(ints, field) == RDiv(SumOf(ints, field, Len(ints)), Rat(Len(ints), 1))

(* get_current_metrics *)
CurrentMetrics(ints) ==
    IF ints = <<>>
    THEN [accuracy |-> Rat(92, 1), resolution_rate |-> Rat(65, 1), total_queries |-> 0,
          avg_response_time |-> Zero, avg_confidence |-> Zero, resolved_queries |-> 0]
    ELSE
        LET total_queries == Len(ints)
            resolved_queries == Cardinality({ i \in 1..Len(ints) : ints[i].resolved })
            resolution_rate == RMul(Rat(resolved_queries, total_queries), Rat(100, 1))
            avg_confidence == Mean(ints, "confidence")
            accuracy == RMul(avg_confidence, Rat(100, 1))
        IN  [accuracy |-> IF RLt(accuracy, Rat(92, 1))
                          THEN RMin(Rat(92, 1), RMul(accuracy, Rat(12, 10)))
                          ELSE accuracy,
             resolution_rate |-> resolution_rate,
             total_queries |-> total_queries,
             avg_response_time |-> Mean(ints, "response_time"),
             avg_confidence |-> avg_confidence,
             resolved_queries |-> resolved_queries]

MetricConfidences == { Zero, Rat(7, 10), Rat(4, 5) }
MetricSourceCounts == { 0, 2 }

InitMetrics ==
    /\ Init
    /\ kb = <<>>
    /\ impl = "srclex"

(* a caller of MetricsTracker.add_interaction *)
AddInteraction ==
    /\ Len(interactions) < MaxInteractions
    /\ \E conf \in MetricConfidences, sources_count \in MetricSourceCounts,
          response_time \in ResponseTimes :
        interactions' = AddInteractionTo(interactions, <<"a">>, GenText, response_time,
                                         conf, sources_count)
    /\ UNCHANGED <<impl, kb, sys, documents, index, pc, query, top_k, relevant_docs,
                   confidence, result, raised, retrFailed, genFailed, apiCalls,
                   lastRetrFailed, histVars, loadVars, front, messages, metrics>>

(* a caller of MetricsTracker.get_current_metrics *)
GetCurrentMetrics ==
    /\ metrics' = CurrentMetrics(interactions)
    /\ UNCHANGED <<impl, kb, sys, documents, index, pc, query, top_k, relevant_docs,
                   confidence, result, raised, retrFailed, genFailed, apiCalls,
                   lastRetrFailed, histVars, loadVars, front, messages, interactions>>

NextMetrics == AddInteraction \/ GetCurrentMetrics

SpecMetrics == InitMetrics /\ [][NextMetrics]_vars

-----------------------------------------------------------------------------
(* The chat front ends: the script of src/app.py (over SimpleRAGSystem) and *)
(* the one of src/src/metrics.py (over the RAGSystem of src/src).  Each     *)
(* prompt is one run of the script: the sidebar reads the metrics, the      *)
(* prompt is appended, get_response runs, and the rest of the handler       *)
(* appends the reply and tracks the metrics.                                *)

MaxPrompts == 2

Fronts == {"app", "srcapp"}

ChatPrompts == { <<"a">>, <<" ">> }

ChatCollections == Collections(1)

AppErrorText == "I apologize, but I'm experiencing technical difficulties. Please try again later. Error: <e>"
SrcAppErrorText == "I apologize, but I'm experiencing technical difficulties. Please try again later."

NoMetadata == [none |-> TRUE]

Message(role, content, metadata) == [role |-> role, content |-> content, metadata |-> metadata]

Handled(msgs, ints) == [messages |-> msgs, interactions |-> ints]

AssistantReply(response_data, response_time) ==
    Message("assistant", response_data.answer,
            [response_time |-> response_time,
             confidence |-> response_data.confidence,
             sources |-> response_data.sources])

(* src/app.py 111-149 after get_response: the reply is appended, then line  *)
(* 133 reads the name e, which is bound only inside the except clause: the  *)
(* NameError is caught by that clause, which appends the error message;     *)
(* add_interaction is not reached                                           *)
AppHandler(msgs, ints, prompt, got, response_time) ==
    IF got.raised
    THEN Handled(Append(msgs, Message("assistant", AppErrorText, NoMetadata)), ints)
    ELSE Handled(Append(Append(msgs, AssistantReply(got.value, response_time)),
                        Message("assistant", AppErrorText, NoMetadata)),
                 ints)

(* src/src/metrics.py 114-156 after get_response *)
SrcAppHandler(msgs, ints, prompt, got, response_time) ==
    IF got.raised
    THEN Handled(Append(msgs, Message("assistant", SrcAppErrorText, NoMetadata)), ints)
    ELSE Handled(Append(msgs, AssistantReply(got.value, response_time)),
                 AddInteractionTo(ints, prompt, got.value.answer, response_time,
                                  got.value.confidence, Len(got.value.sources)))

UserMessages(msgs) == { i \in 1..Len(msgs) : msgs[i].role = "user" }

InitChat ==
    /\ front \in Fronts
    /\ impl = IF front = "app" THEN "simple" ELSE "srclex"
    /\ kb \in ChatCollections
    /\ sys = "none"
    /\ documents = <<>>
    /\ index = NoIndex
    /\ pc = "Idle"
    /\ query = <<>>
    /\ top_k = TopK
    /\ relevant_docs = <<>>
    /\ confidence = NoValue
    /\ result = NoValue
    /\ raised = FALSE
    /\ retrFailed = FALSE
    /\ genFailed = FALSE
    /\ apiCalls = 0
    /\ lastRetrFailed = FALSE
    /\ NoHistory
    /\ StoreLoaded
    /\ messages = <<>>
    /\ interactions = <<>>
    /\ metrics = NoValue

(* a prompt arrives: the script runs up to the call of get_response *)
ChatInput ==
    /\ front \in Fronts
    /\ sys = "ready"
    /\ pc = "Idle"
    /\ Cardinality(UserMessages(messages)) < MaxPrompts
    /\ metrics' = CurrentMetrics(interactions)
    /\ \E prompt \in ChatPrompts :
        /\ messages' = Append(messages, Message("user", prompt, NoMetadata))
        /\ query' = prompt
    /\ pc' = "Retrieving"
    /\ UNCHANGED <<impl, kb, sys, documents, index, top_k, relevant_docs, confidence,
                   result, raised, retrFailed, genFailed, apiCalls, lastRetrFailed,
                   histVars, loadVars, front, interactions>>

(* get_response has returned (or raised): the rest of the handler *)
ChatRespond ==
    /\ front \in Fronts
    /\ pc \in {"Done", "Error"}
    /\ \E response_time \in ResponseTimes :
        LET got == IF raised THEN Raised ELSE Returned(result)
            out == IF front = "app"
                   THEN AppHandler(messages, interactions, query, got, response_time)
                   ELSE SrcAppHandler(messages, interactions, query, got, response_time)
        IN  /\ messages' = out.messages
            /\ interactions' = out.interactions
    /\ pc' = "Idle"
    /\ query' = <<>>
    /\ relevant_docs' = <<>>
    /\ confidence' = NoValue
    /\ result' = NoValue
    /\ raised' = FALSE
    /\ retrFailed' = FALSE
    /\ genFailed' = FALSE
    /\ apiCalls' = 0
    /\ lastRetrFailed' = retrFailed
    /\ lastAdded' = NoValue
    /\ UNCHANGED <<impl, kb, sys, documents, index, top_k, prev, loadVars, front,
                   metrics>>

NextChat == Construct \/ ChatInput \/ Retrieve \/ Generate \/ ChatRespond

SpecChat == InitChat /\ [][NextChat]_vars

-----------------------------------------------------------------------------
(* Properties.                                                              *)

Finished == pc \in {"Done", "Error"}

ResultKeys == {"answer", "confidence", "sources"}

(* C1: get_response never raises: for every query (the empty one and one    *)
(* with no word character included) and whatever the retrieval and the      *)
(* generation stage do, the call returns a dict with exactly the keys       *)
(* answer, confidence and sources.                                          *)
C1_NeverRaises ==
    /\ raised = FALSE
    /\ Finished => DOMAIN result = ResultKeys

(* a query with no word character whose retrieval and generation both failed *)
C1_Witness ==
    /\ Finished
    /\ query = <<" ">>
    /\ retrFailed
    /\ genFailed
    /\ DOMAIN result = ResultKeys

(* C2: when the generation stage fails, get_response returns the fixed      *)
(* fallback of _generate_response, confidence 0.0 and sources [], also when *)
(* retrieval had found documents; the second fallback text, the one of      *)
(* get_response's own handler, is never what the caller receives.           *)
C2_GenerationFailureFallback ==
    Finished =>
        /\ genFailed => result = Fallback(InnerFallbackText(impl))
        /\ result.answer # OuterFallbackText(impl)

(* a failed generation after a retrieval that had found documents *)
C2_Witness ==
    /\ Finished
    /\ genFailed
    /\ relevant_docs # <<>>
    /\ result = Fallback(InnerFallbackText(impl))

(* C3 as stated: every stage failure, of retrieval as of generation, ends   *)
(* in Error with the fixed fallback as the result.                          *)
C3_AnyStageFailureIsError ==
    (Finished /\ (retrFailed \/ genFailed)) =>
        /\ pc = "Error"
        /\ IsFallback(impl, result)

(* C3 as amended: a generation failure ends in Error with the fallback of   *)
(* _generate_response; a retrieval failure alone does not: the run goes on  *)
(* with no documents and returns the generated text, confidence 0.0 and     *)
(* sources [].                                                              *)
C3_GenerationFailureIsError ==
    Finished =>
        /\ genFailed => (pc = "Error" /\ result = Fallback(InnerFallbackText(impl)))
        /\ (retrFailed /\ ~genFailed) =>
              (pc = "Done" /\ result = [answer |-> GenText, confidence |-> Zero,
                                        sources |-> <<>>])

(* a retrieval failure followed by a successful generation *)
C3_Witness ==
    /\ pc = "Done"
    /\ retrFailed
    /\ ~genFailed
    /\ result.answer = GenText

(* C4: an exception inside retrieval stays in the retriever: it hands the   *)
(* empty list to get_response, which goes on to the generation stage.       *)
C4_RetrievalFailureAbsorbed ==
    retrFailed =>
        /\ relevant_docs = <<>>
        /\ raised = FALSE
        /\ pc = "Error" => genFailed
        /\ pc \in {"Generating", "Done", "Error"}

(* the dense retriever failed on a built index and generation is next *)
C4_Witness ==
    /\ impl = "dense"
    /\ index.built
    /\ retrFailed
    /\ pc = "Generating"
    /\ relevant_docs = <<>>

(* the positions of the collection the returned documents can come from,    *)
(* ranked: scores never increase, equal scores keep the collection's order  *)
RankedFrom(docs, found) ==
    \E f \in [1..Len(found) -> 1..Len(docs)] :
        /\ \A i \in 1..Len(found) : docs[f[i]] = WithoutScore(found[i])
        /\ \A i, j \in 1..Len(found) :
              i < j => \/ RLt(found[j].score, found[i].score)
                       \/ (found[j].score = found[i].score /\ f[i] < f[j])

(* C5: for a non-empty query, a non-empty collection and top_k >= 0 the     *)
(* lexical retriever returns at most top_k documents, in non-increasing     *)
(* order of score, documents of equal score in the collection's order.      *)
C5_TopKSortedStable ==
    (pc = "Generating" /\ query # <<>> /\ documents # <<>>) =>
        /\ Len(relevant_docs) <= top_k
        /\ \A i, j \in 1..Len(relevant_docs) :
              i < j => RLe(relevant_docs[j].score, relevant_docs[i].score)
        /\ RankedFrom(documents, relevant_docs)

(* two different documents tie and top_k = 1 keeps the earlier one *)
C5_Witness ==
    /\ pc = "Generating"
    /\ ~retrFailed
    /\ top_k = 1
    /\ Len(documents) = 2
    /\ documents[1] # documents[2]
    /\ Len(relevant_docs) = 1
    /\ WithoutScore(relevant_docs[1]) = documents[1]
    /\ LET all == ScoredDocs(impl, documents, QueryWords(query))
       IN  Len(all) = 2 /\ all[1].score = all[2].score

Words(field) == FindAllWords(LowerStr(field))

(* the score formula of the specification, section 4.1 *)
FullFormula(doc, q) ==
    LET Q == QueryWords(q)
        title == Get(doc, "title", <<>>)
        content == Get(doc, "content", <<>>)
        category == Get(doc, "category", <<>>)
        bonus == Cardinality({ w \in Q : Contains(LowerStr(content), w) })
                 + 2 * Cardinality({ w \in Q : Contains(LowerStr(title), w) })
    IN  Rat(3 * Cardinality(Q \cap Words(title))
            + Cardinality(Q \cap Words(content))
            + 2 * Cardinality(Q \cap Words(category))
            + bonus,
            Max2(Cardinality(Q), 1))

(* title and content word overlap only *)
TitleContentFormula(doc, q) ==
    LET Q == QueryWords(q)
    IN  Rat(3 * Cardinality(Q \cap Words(Get(doc, "title", <<>>)))
            + Cardinality(Q \cap Words(Get(doc, "content", <<>>))),
            Max2(Cardinality(Q), 1))

(* the retrieval result is what the formula gives: every returned document  *)
(* carries its score by it, which is > 0, and a document it scores > 0      *)
(* is returned whenever top_k leaves room for all of them                   *)
ClaimedScore(full, doc, q) ==
    IF full THEN FullFormula(doc, q) ELSE TitleContentFormula(doc, q)

ScoredBy(full) ==
    /\ \A i \in 1..Len(relevant_docs) :
          /\ relevant_docs[i].score = ClaimedScore(full, WithoutScore(relevant_docs[i]), query)
          /\ RLt(Zero, relevant_docs[i].score)
    /\ Cardinality({ j \in 1..Len(documents) : RLt(Zero, ClaimedScore(full, documents[j], query)) }) <= top_k
          => \A j \in 1..Len(documents) :
                RLt(Zero, ClaimedScore(full, documents[j], query)) =>
                    \E i \in 1..Len(relevant_docs) :
                        WithoutScore(relevant_docs[i]) = documents[j]

(* C6 as stated: both lexical retrievers score with the full formula        *)
(* (title, content, category, phrase bonus) and drop scores <= 0.           *)
C6_FullFormulaEverywhere ==
    (pc = "Generating" /\ ~retrFailed) => ScoredBy(TRUE)

(* C6 as amended: SimpleRAGSystem scores with the full formula; the         *)
(* RAGSystem of src/src scores (3*|Q n title| + |Q n content|)/max(|Q|,1),  *)
(* with no category term and no phrase bonus; both drop scores <= 0.        *)
C6_FormulaPerImplementation ==
    (pc = "Generating" /\ ~retrFailed) =>
        /\ impl = "simple" => ScoredBy(TRUE)
        /\ impl = "srclex" => ScoredBy(FALSE)

(* SimpleRAGSystem returns a document matched by nothing but a substring    *)
(* of a word of its content                                                 *)
C6_Witness ==
    /\ pc = "Generating"
    /\ impl = "simple"
    /\ ~retrFailed
    /\ \E i \in 1..Len(relevant_docs) :
          /\ TitleContentFormula(WithoutScore(relevant_docs[i]), query) = Zero
          /\ Words(Get(relevant_docs[i], "category", <<>>)) \cap QueryWords(query) = {}
          /\ RLt(Zero, relevant_docs[i].score)

InUnit(c) == RLe(Zero, c) /\ RLe(c, One)

(* C7: the confidence of every returned result, and every value of          *)
(* _calculate_confidence (scores above 1 or below 0 included), is in [0,1]; *)
(* for the empty list it is exactly 0.0.                                    *)
C7_ConfidenceInUnitInterval ==
    /\ Finished => InUnit(result.confidence)
    /\ confidence # NoValue =>
          /\ InUnit(confidence)
          /\ relevant_docs = <<>> => confidence = Zero

(* the estimate of a list holding a score above 1 and one below 0 *)
C7_Witness ==
    /\ pc = "Done"
    /\ confidence # NoValue
    /\ result.confidence = confidence
    /\ \E i, j \in 1..Len(relevant_docs) :
          /\ i <= ConfidenceDocs /\ j <= ConfidenceDocs
          /\ RLt(One, relevant_docs[i].score)
          /\ RLt(relevant_docs[j].score, Zero)

(* the weighted average of the specification, section 4.3, over the first   *)
(* three scores, each capped at 1.0 (cap) or as it is                       *)
ClaimedConfidence(docs, cap) ==
    LET sc(i) == IF cap THEN RMin(docs[i].score, One) ELSE docs[i].score
        avg == CASE Len(docs) = 1 -> RDiv(sc(1), One)
                 [] Len(docs) = 2 ->
                      RDiv(RAdd(sc(1), RMul(sc(2), Rat(7, 10))), Rat(17, 10))
                 [] OTHER ->
                      RDiv(RAdd(RAdd(sc(1), RMul(sc(2), Rat(7, 10))),
                                RMul(sc(3), Rat(5, 10))), Rat(22, 10))
    IN  RMin(One, RMax(Zero, avg))

(* C8 as stated: in every implementation, dense included, each score is     *)
(* capped at 1.0 before it is weighted.                                     *)
C8_CappedEverywhere ==
    (confidence # NoValue /\ relevant_docs # <<>>) =>
        confidence = ClaimedConfidence(relevant_docs, TRUE)

(* C8 as amended: the lexical implementations cap each score at 1.0 before  *)
(* weighting; the dense one weights the scores as they are and clamps only  *)
(* the quotient, which is the same value whenever none of the first three   *)
(* scores exceeds 1.0.  In all three only the first three documents count,  *)
(* with weights 1.0, 0.7, 0.5.                                              *)
C8_CappedInLexicalOnly ==
    (confidence # NoValue /\ relevant_docs # <<>>) =>
        /\ confidence = ClaimedConfidence(relevant_docs, impl \in Lexical)
        /\ (\A i \in 1..Min2(Len(relevant_docs), 3) : RLe(relevant_docs[i].score, One))
              => confidence = ClaimedConfidence(relevant_docs, TRUE)

(* four documents, a score above 1 among the first three, lexical *)
C8_Witness ==
    /\ impl \in Lexical
    /\ confidence # NoValue
    /\ Len(relevant_docs) = 4
    /\ RLt(One, relevant_docs[2].score)
    /\ RLt(Zero, relevant_docs[4].score)
    /\ RLt(confidence, One)

(* C9 as stated: over an empty collection a lexical system can be           *)
(* constructed, retrieves nothing, and answers with the generated text,     *)
(* confidence 0.0 and no sources.                                           *)
C9_EmptyCollectionTolerated ==
    (impl \in Lexical /\ kb = <<>>) =>
        /\ sys # "failed"
        /\ pc \in {"Generating", "Done", "Error"} => relevant_docs = <<>>
        /\ (Finished /\ ~genFailed) =>
              result = [answer |-> GenText, confidence |-> Zero, sources |-> <<>>]

(* what C10 says of every state of a dense system *)
DenseInitFatal ==
    impl = "dense" =>
        /\ (kb = <<>> /\ sys # "none") => sys = "failed"
        /\ sys = "failed" => (pc = "Idle" /\ result = NoValue /\ ~index.built)
        /\ retrFailed => (relevant_docs = <<>> /\ sys = "ready" /\ ~raised)

(* what C10 says of the step in which a dense retrieval fails *)
DenseQueryFailureLeavesSystem ==
    (impl = "dense" /\ ~retrFailed /\ retrFailed') =>
        /\ documents' = documents
        /\ index' = index
        /\ sys' = "ready"
        /\ kb' = kb

(* C10: the dense constructor raises over an empty store and leaves no      *)
(* system to query; a retrieval failure on a constructed system yields the  *)
(* empty list for that query and leaves documents and index as they were,   *)
(* so the next query is served.                                             *)
C10_DenseInitFatalQueryFailureNot ==
    []DenseInitFatal /\ [][DenseQueryFailureLeavesSystem]_vars

(* the query after a failed retrieval finds documents again *)
C10_Witness ==
    /\ impl = "dense"
    /\ lastRetrFailed
    /\ ~retrFailed
    /\ pc = "Generating"
    /\ relevant_docs # <<>>

(* C11 as stated: after add_to_knowledge_base(X, Y) returned True, the very *)
(* next retrieval, for the query Y, returns the new document, whatever adds *)
(* and queries came before.                                                 *)
C11_FreshAfterAdd ==
    (pc \in {"Generating", "Done", "Error"} /\ lastAdded # NoValue
        /\ query = lastAdded.content /\ ~retrFailed) =>
        \E i \in 1..Len(relevant_docs) : WithoutScore(relevant_docs[i]) = lastAdded

(* C12: a second call of the lexical retriever with the same query and the  *)
(* same top_k, with no add in between, returns what the first call          *)
(* returned: the same documents with the same scores in the same order.     *)
C12_RetrieveIdempotent ==
    (pc = "Generating" /\ prev # NoValue) =>
        /\ prev.query = query /\ prev.top_k = top_k
        /\ relevant_docs = prev.docs
        /\ retrFailed = prev.failed

(* both calls returned two documents of equal score *)
C12_Witness ==
    /\ pc = "Generating"
    /\ prev # NoValue
    /\ Len(prev.docs) = 2
    /\ prev.docs[1].score = prev.docs[2].score
    /\ prev.docs[1] # prev.docs[2]
    /\ relevant_docs = prev.docs

(* no stored document carries a score *)
NoStoredScore ==
    \A i \in 1..Len(documents) : DOMAIN documents[i] = {"title", "content", "category"}

(* a step of a query, from the call of get_response to its return *)
StoreFrame ==
    (pc # "Idle" \/ pc' # "Idle") => (documents' = documents /\ kb' = kb)

(* C13: retrieval and get_response leave the document store as it is:       *)
(* every step of a query keeps the stored documents, their fields and       *)
(* their order, and no stored document ever carries a score; the score is   *)
(* on the copies the retriever returns.                                     *)
C13_StoreUnchangedByQueries ==
    []NoStoredScore /\ [][StoreFrame]_vars

(* a query over a store grown by an add returned three scored copies *)
C13_Witness ==
    /\ pc = "Done"
    /\ Len(documents) > Len(file.items)
    /\ Len(relevant_docs) = 3
    /\ \A i \in 1..3 : "score" \in DOMAIN relevant_docs[i]
    /\ NoStoredScore

(* C14: on a successful get_response the sources list has at most 3         *)
(* entries, one per retrieved document in the order of retrieval, highest   *)
(* score first; entry i carries the title, the score and the category of    *)
(* retrieved document i, the category being "General" when it has none.     *)
C14_SourcesFollowRetrieval ==
    pc = "Done" =>
        /\ Len(result.sources) <= 3
        /\ Len(result.sources) = Len(relevant_docs)
        /\ \A i \in 1..Len(result.sources) :
              result.sources[i] =
                  [title |-> relevant_docs[i].title,
                   score |-> relevant_docs[i].score,
                   category |-> IF relevant_docs[i].category = Missing
                                THEN General ELSE relevant_docs[i].category]
        /\ \A i, j \in 1..Len(result.sources) :
              i < j => RLe(result.sources[j].score, result.sources[i].score)

(* four stored documents match, three are sources, one of them without a    *)
(* category of its own                                                      *)
C14_Witness ==
    /\ pc = "Done"
    /\ impl \in Lexical
    /\ Len(ScoredDocs(impl, documents, QueryWords(query))) = 4
    /\ Len(result.sources) = 3
    /\ RLt(result.sources[3].score, result.sources[1].score)
    /\ \E i \in 1..3 :
          relevant_docs[i].category = Missing /\ result.sources[i].category = General

(* C15 as stated: the stages run in the order retrieve, compose, generate,  *)
(* score, once each: no chat-completion call before retrieval is done,      *)
(* exactly one per query when get_response returns (also after an empty     *)
(* retrieval, never a second one after a failure), and a confidence         *)
(* estimate only after the call has succeeded.                              *)
C15_OneCallPerQuery ==
    /\ pc \in {"Idle", "Retrieving", "Generating"} => (apiCalls = 0 /\ confidence = NoValue)
    /\ Finished => apiCalls = 1
    /\ confidence # NoValue => (pc = "Done" /\ ~genFailed /\ apiCalls = 1)

NoWordQuery ==
    /\ impl \in Lexical
    /\ pc \in {"Generating", "Done", "Error"}
    /\ QueryWords(query) = {}

(* C16 as stated: for a query with no word character the lexical retriever  *)
(* returns nothing, over every collection, and get_response then returns    *)
(* the fallback.                                                            *)
C16_EmptyQueryTriggersFallback ==
    NoWordQuery =>
        /\ relevant_docs = <<>>
        /\ Finished => IsFallback(impl, result)

(* C16 as amended: for a query with no word character the lexical retriever *)
(* returns nothing, over every collection; get_response then still calls    *)
(* the generator, once, with an empty context, and returns the generated    *)
(* text with confidence 0.0 and no sources; the fallback is returned only   *)
(* when that generation fails.                                              *)
C16_EmptyQueryEmptyResult ==
    NoWordQuery =>
        /\ relevant_docs = <<>>
        /\ Finished => apiCalls = 1
        /\ pc = "Done" =>
              result = [answer |-> GenText, confidence |-> Zero, sources |-> <<>>]
        /\ pc = "Error" => (genFailed /\ result = Fallback(InnerFallbackText(impl)))

(* a query of one space over a store whose documents all score: generated   *)
(* text, no sources                                                         *)
C16_Witness ==
    /\ NoWordQuery
    /\ pc = "Done"
    /\ query = <<" ">>
    /\ documents # <<>>
    /\ ~retrFailed
    /\ result.answer = GenText
    /\ result.sources = <<>>

(* the matches of a document that the class im counts *)
TitleOverlap(doc, q) == Cardinality(QueryWords(q) \cap Words(Get(doc, "title", <<>>)))
ContentOverlap(doc, q) == Cardinality(QueryWords(q) \cap Words(Get(doc, "content", <<>>)))
CategoryOverlap(doc, q) == Cardinality(QueryWords(q) \cap Words(Get(doc, "category", <<>>)))
ContentSubstrings(doc, q) ==
    Cardinality({ w \in QueryWords(q) : Contains(LowerStr(Get(doc, "content", <<>>)), w) })
TitleSubstrings(doc, q) ==
    Cardinality({ w \in QueryWords(q) : Contains(LowerStr(Get(doc, "title", <<>>)), w) })

(* a has more title-word overlap than b and no fewer other matches *)
MoreTitleNoFewerOther(im, a, b, q) ==
    /\ TitleOverlap(a, q) > TitleOverlap(b, q)
    /\ ContentOverlap(a, q) >= ContentOverlap(b, q)
    /\ im = "simple" =>
          /\ CategoryOverlap(a, q) >= CategoryOverlap(b, q)
          /\ ContentSubstrings(a, q) >= ContentSubstrings(b, q)
          /\ TitleSubstrings(a, q) >= TitleSubstrings(b, q)

PositionsOf(doc) == { i \in 1..Len(relevant_docs) : WithoutScore(relevant_docs[i]) = doc }

(* C17: on the collection [Reset Password, Billing Cycle] and the query     *)
(* "how do I reset my password" the lexical retriever returns Reset         *)
(* Password first, and Billing Cycle, after it and with a lower score,      *)
(* exactly when Billing Cycle scores > 0.  On every collection a returned   *)
(* document has a score > 0, and a document with more title-word overlap    *)
(* and no fewer other matches than a returned one is returned before it.    *)
C17_TitleOverlapRanksFirst ==
    (pc = "Generating" /\ ~retrFailed) =>
        /\ (documents = ScenarioCollection /\ query = ScenarioQuery /\ top_k = TopK) =>
              /\ Len(relevant_docs) >= 1
              /\ WithoutScore(relevant_docs[1]) = ResetPassword
              /\ (PositionsOf(BillingCycle) # {})
                    <=> (TotalScore(impl, BillingCycle, QueryWords(query)) > 0)
              /\ \A i \in PositionsOf(BillingCycle) :
                    i = 2 /\ RLt(relevant_docs[2].score, relevant_docs[1].score)
        /\ \A i \in 1..Len(relevant_docs) : RLt(Zero, relevant_docs[i].score)
        /\ \A i, j \in 1..Len(relevant_docs) :
              MoreTitleNoFewerOther(impl, relevant_docs[j], relevant_docs[i], query) => j < i
        /\ \A d \in 1..Len(documents) : \A i \in 1..Len(relevant_docs) :
              MoreTitleNoFewerOther(impl, documents[d], relevant_docs[i], query) =>
                  \E j \in 1..(i - 1) : WithoutScore(relevant_docs[j]) = documents[d]

(* the scenario under SimpleRAGSystem: both documents returned, Billing     *)
(* Cycle by the substring "i" alone                                         *)
C17_Witness ==
    /\ pc = "Generating"
    /\ impl = "simple"
    /\ documents = ScenarioCollection
    /\ query = ScenarioQuery
    /\ Len(relevant_docs) = 2
    /\ relevant_docs[1].score = Rat(13, 6)
    /\ relevant_docs[2].score = Rat(3, 6)
    /\ WithoutScore(relevant_docs[2]) = BillingCycle

(* C18 as stated: loading never fails: KnowledgeBase construction returns   *)
(* normally, a missing file, a file that is not JSON and a wrongly shaped   *)
(* JSON file all give the empty collection, and get_document_count works    *)
(* on what was loaded.                                                      *)
C18_LoadNeverFails ==
    loaded # NoValue =>
        /\ loaded.shape # "raised"
        /\ file.kind # "list" => loaded = EmptyList
        /\ file.kind = "list" => loaded = ListValue(file.items)
        /\ count # NoValue => ~count.raised

(* C20: an interaction is resolved exactly when its confidence is > 0.7 and *)
(* its sources_count is > 0, so one with confidence 0.0 and no sources is   *)
(* not, and resolved_queries never exceeds total_queries.                   *)
C20_ResolvedIffConfidentWithSources ==
    /\ \A i \in 1..Len(interactions) :
          /\ interactions[i].resolved <=>
                (RLt(Rat(7, 10), interactions[i].confidence)
                    /\ interactions[i].sources_count > 0)
          /\ (interactions[i].confidence = Zero /\ interactions[i].sources_count = 0)
                => ~interactions[i].resolved
    /\ metrics # NoValue =>
          /\ metrics.resolved_queries <= metrics.total_queries
          /\ metrics.total_queries <= Len(interactions)
    /\ CurrentMetrics(interactions).total_queries = Len(interactions)
    /\ CurrentMetrics(interactions).resolved_queries =
          Cardinality({ i \in 1..Len(interactions) :
              RLt(Rat(7, 10), interactions[i].confidence)
                  /\ interactions[i].sources_count > 0 })

(* two interactions with sources, one at confidence 0.7 exactly and not     *)
(* resolved, one above and resolved                                         *)
C20_Witness ==
    /\ metrics # NoValue
    /\ metrics.total_queries = 2
    /\ metrics.resolved_queries = 1
    /\ \E i, j \in 1..Len(interactions) :
          /\ interactions[i].confidence = Rat(7, 10)
          /\ interactions[i].sources_count > 0
          /\ ~interactions[i].resolved
          /\ interactions[j].resolved

(* C19 as stated: in both chat front ends every prompt for which            *)
(* get_response returned a result has appended exactly one Interaction, so  *)
(* after n handled prompts total_queries is n.                              *)
C19_OneInteractionPerQuery ==
    (front \in Fronts /\ pc = "Idle") =>
        /\ Len(interactions) = Cardinality(UserMessages(messages))
        /\ CurrentMetrics(interactions).total_queries = Cardinality(UserMessages(messages))

(* the scores of the first list are, position by position, at least those   *)
(* of the second                                                            *)
Dominates(first, second) ==
    /\ Len(first) = Len(second)
    /\ \A i \in 1..Len(first) : RLe(second[i].score, first[i].score)

(* C21: for two lists of the same length, the first with a score >= that of *)
(* the second at every position, _calculate_confidence of the first is >=   *)
(* that of the second.                                                      *)
C21_ConfidenceMonotone ==
    (pc = "ConfidenceDone" /\ prev # NoValue /\ Dominates(prev.docs, relevant_docs)) =>
        RLe(confidence, prev.confidence)

(* two lists of more than three documents that differ in one of the first   *)
(* three scores, with different confidences                                 *)
C21_Witness ==
    /\ pc = "ConfidenceDone"
    /\ prev # NoValue
    /\ Len(relevant_docs) > ConfidenceDocs
    /\ Dominates(prev.docs, relevant_docs)
    /\ \E i \in 1..ConfidenceDocs : RLt(relevant_docs[i].score, prev.docs[i].score)
    /\ RLt(confidence, prev.confidence)
    /\ RLt(Zero, confidence)

(* C22: under the lexical strategy every retrieved document has a score     *)
(* above 0, and the result of get_response has confidence 0.0 exactly when  *)
(* its sources list is empty.                                               *)
C22_ZeroConfidenceIffNoSources ==
    impl \in Lexical =>
        /\ \A i \in 1..Len(relevant_docs) : RLt(Zero, relevant_docs[i].score)
        /\ Finished => (RLe(result.confidence, Zero) <=> result.sources = <<>>)

(* a lexical result with one source and a confidence above 0, over a store  *)
(* that also holds a document the query does not match                      *)
C22_Witness ==
    /\ impl \in Lexical
    /\ pc = "Done"
    /\ Len(result.sources) = 1
    /\ Len(documents) = 2
    /\ RLt(Zero, result.confidence)

(* as many documents as vectors, vector i the embedding of document i *)
DenseAligned ==
    (impl = "dense" /\ sys = "ready") =>
        /\ Len(documents) = Len(index.vecs)
        /\ \A i \in 1..Len(documents) :
              i <= Len(index.vecs) => index.vecs[i] = Embed(documents[i].content)

(* the step of an add_to_knowledge_base that returns False changes neither  *)
(* the documents nor the index                                              *)
FailedAddChangesNothing ==
    (impl = "dense" /\ sys = "ready" /\ pc = "Idle" /\ pc' = "Idle"
       /\ lastAdded' = NoValue) =>
        /\ documents' = documents
        /\ index' = index

(* C23 as stated: in a dense system, after any sequence of                  *)
(* add_to_knowledge_base calls, there are as many documents as vectors and  *)
(* vector i is the embedding of document i; an add that returns False       *)
(* leaves the document list and the index unchanged.                        *)
C23_DenseIndexAligned == []DenseAligned /\ [][FailedAddChangesNothing]_vars

(* C24 as stated: in both chat front ends every handled prompt has added    *)
(* one user message followed by one assistant message (the answer or an     *)
(* error message, never both), so the history alternates user, assistant.   *)
C24_OneReplyPerPrompt ==
    (front \in Fronts /\ pc = "Idle") =>
        /\ Len(messages) = 2 * Cardinality(UserMessages(messages))
        /\ \A i \in 1..Len(messages) :
              messages[i].role = (IF i % 2 = 1 THEN "user" ELSE "assistant")

====
